---- MODULE Spec2Model ----
(***************************************************************************)
(* RiskEngine (src/app.py): risk and performance metrics of one price      *)
(* series, each computed on the rows of a date window.                     *)
(*                                                                         *)
(* Numbers.  A float is a pair <<n, d>>: with d > 0 it is the rational n/d *)
(* in lowest terms; <<0, 0>> is NaN, <<1, 0>> is +inf, <<-1, 0>> is -inf.  *)
(* Arithmetic is exact, so the model follows the formulas of the code and  *)
(* not the rounding of IEEE doubles.                                       *)
(***************************************************************************)
EXTENDS Integers, Sequences, FiniteSets

\* ------------------------------------------------------------- bounds
\* Calendar days are 1..MaxDate; rows are stored on days 2..MaxDate-1, so a
\* window can lie before, inside or after the stored range.
MaxDate == 5
\* Prices ("Adj Close") are 1..MaxPrice.
MaxPrice == 3
\* Rolling windows of max_drawdown and plot_volatility are 1..MaxWindow.
MaxWindow == 4

\* Annualization factor: trading days per year.
A == 252

Dates == 1 .. MaxDate
StorableDates == 2 .. (MaxDate - 1)
Prices == 1 .. MaxPrice
Windows == 1 .. MaxWindow
\* Percentile levels offered to var_historical / cvar_historical (default 5).
Levels == {5, 20, 40, 75}

\* ------------------------------------------------------------- floats
NaN == <<0, 0>>
PosInf == <<1, 0>>
NegInf == <<-1, 0>>

Abs(n) == IF n < 0 THEN -n ELSE n
Sign(n) == IF n < 0 THEN -1 ELSE IF n > 0 THEN 1 ELSE 0

RECURSIVE GCD(_, _)
GCD(a, b) == IF b = 0 THEN a ELSE GCD(b, a % b)

\* n/d (d # 0) in lowest terms with a positive denominator.
Norm(n, d) ==
    LET s == IF d < 0 THEN -1 ELSE 1
        g == GCD(Abs(n), Abs(d))
    IN  << (s * n) \div g, (s * d) \div g >>

FInt(n) == << n, 1 >>
IsNaN(x) == x = NaN
IsInf(x) == x[2] = 0 /\ x[1] # 0
IsFinite(x) == x[2] > 0

\* IEEE addition, subtraction, multiplication and division on floats.
FNeg(x) == << -x[1], x[2] >>
FAdd(x, y) ==
    IF IsNaN(x) \/ IsNaN(y) THEN NaN
    ELSE IF IsInf(x) /\ IsInf(y) THEN (IF x = y THEN x ELSE NaN)
    ELSE IF IsInf(x) THEN x
    ELSE IF IsInf(y) THEN y
    ELSE LET l == (x[2] \div GCD(x[2], y[2])) * y[2]
         IN  Norm(x[1] * (l \div x[2]) + y[1] * (l \div y[2]), l)
FSub(x, y) == FAdd(x, FNeg(y))
FMul(x, y) ==
    IF IsNaN(x) \/ IsNaN(y) THEN NaN
    ELSE IF IsInf(x) \/ IsInf(y)
         THEN (IF x[1] = 0 \/ y[1] = 0 THEN NaN ELSE << Sign(x[1]) * Sign(y[1]), 0 >>)
    ELSE LET g1 == GCD(Abs(x[1]), y[2])
             g2 == GCD(Abs(y[1]), x[2])
         IN  Norm((x[1] \div g1) * (y[1] \div g2), (x[2] \div g2) * (y[2] \div g1))
\* A numpy float64 division: x/0 is +-inf, 0/0 is NaN; nothing is raised.
FDiv(x, y) ==
    IF IsNaN(x) \/ IsNaN(y) THEN NaN
    ELSE IF IsInf(y) THEN (IF IsInf(x) THEN NaN ELSE FInt(0))
    ELSE IF y[1] = 0 THEN (IF x[1] = 0 THEN NaN ELSE << Sign(x[1]), 0 >>)
    ELSE IF IsInf(x) THEN << Sign(x[1]) * Sign(y[1]), 0 >>
    ELSE FMul(x, Norm(y[2], y[1]))
FAbs(x) == << Abs(x[1]), x[2] >>

\* Comparisons of floats; every comparison with NaN is false.
FLt(x, y) ==
    /\ ~IsNaN(x) /\ ~IsNaN(y)
    /\ IF IsFinite(x) /\ IsFinite(y) THEN x[1] * y[2] < y[1] * x[2]
       ELSE IF IsInf(x) /\ IsInf(y) THEN x[1] < y[1]
       ELSE IF IsInf(x) THEN x[1] < 0
       ELSE y[1] > 0
FLe(x, y) == ~IsNaN(x) /\ ~IsNaN(y) /\ ~FLt(y, x)
FGt(x, y) == FLt(y, x)

\* ------------------------------------------------------------- series
\* numpy's sum and product of a sequence of floats (1 for the empty product).
RECURSIVE FSum(_)
FSum(xs) == IF Len(xs) = 0 THEN FInt(0) ELSE FAdd(xs[1], FSum(Tail(xs)))
RECURSIVE FProd(_)
FProd(xs) == IF Len(xs) = 0 THEN FInt(1) ELSE FMul(xs[1], FProd(Tail(xs)))

NotNaN(x) == ~IsNaN(x)
\* Series.dropna / the skipna=True default of the pandas reductions.
DropNa(xs) == SelectSeq(xs, NotNaN)

\* Series.mean(): the mean of the non-NaN entries, NaN when there is none.
Mean(xs) ==
    LET ys == DropNa(xs)
    IN  IF Len(ys) = 0 THEN NaN ELSE FDiv(FSum(ys), FInt(Len(ys)))

\* The k-th central moment as scipy.stats computes it (population, 1/n).
Moment(xs, k) ==
    LET m == Mean(xs)
        Dev(i) == FSub(xs[i], m)
        Pow(x) == IF k = 2 THEN FMul(x, x)
                  ELSE IF k = 3 THEN FMul(x, FMul(x, x))
                  ELSE FMul(FMul(x, x), FMul(x, x))
    IN  IF Len(xs) = 0 THEN NaN
        ELSE FDiv(FSum([i \in 1 .. Len(xs) |-> Pow(Dev(i))]), FInt(Len(xs)))

\* Series.var() / the square of Series.std(): sample variance (ddof = 1) of
\* the non-NaN entries, NaN when fewer than two are left.
Var(xs) ==
    LET ys == DropNa(xs)
        m == Mean(ys)
        Sq(i) == FMul(FSub(ys[i], m), FSub(ys[i], m))
    IN  IF Len(ys) <= 1 THEN NaN
        ELSE FDiv(FSum([i \in 1 .. Len(ys) |-> Sq(i)]), FInt(Len(ys) - 1))

\* Series.min(): the least non-NaN entry, NaN when there is none.
RECURSIVE FMin(_)
FMin(xs) ==
    IF Len(xs) = 0 THEN NaN
    ELSE LET rest == FMin(Tail(xs))
         IN  IF IsNaN(xs[1]) THEN rest
             ELSE IF IsNaN(rest) \/ FLe(xs[1], rest) THEN xs[1]
             ELSE rest

\* Series.max() over the non-NaN entries.
FMax(xs) == FNeg(FMin([i \in 1 .. Len(xs) |-> FNeg(xs[i])]))

\* The position idxmin reports: a left-to-right scan that moves only to a
\* strictly smaller entry, so the first of several equal minima is kept.
\* 0 stands for "no position" (no non-NaN entry).
RECURSIVE ArgMinFrom(_, _, _)
ArgMinFrom(xs, i, best) ==
    IF i > Len(xs) THEN best
    ELSE IF IsNaN(xs[i]) THEN ArgMinFrom(xs, i + 1, best)
    ELSE IF best = 0 \/ FLt(xs[i], xs[best]) THEN ArgMinFrom(xs, i + 1, i)
    ELSE ArgMinFrom(xs, i + 1, best)
ArgMin(xs) == ArgMinFrom(xs, 1, 0)

\* Insertion sort, ascending (np.percentile orders the sample).
RECURSIVE Insert(_, _)
Insert(x, ys) ==
    IF Len(ys) = 0 THEN << x >>
    ELSE IF FLe(x, ys[1]) THEN << x >> \o ys
    ELSE << ys[1] >> \o Insert(x, Tail(ys))
RECURSIVE Sorted(_)
Sorted(xs) == IF Len(xs) = 0 THEN << >> ELSE Insert(xs[1], Sorted(Tail(xs)))

\* ------------------------------------------------------------- the store
\* self.df: the rows of the file, ascending by date, one "Adj Close" each.
RECURSIVE RowsOf(_, _)
RowsOf(f, d) ==
    IF d > MaxDate THEN << >>
    ELSE (IF d \in DOMAIN f THEN << [date |-> d, price |-> f[d]] >> ELSE << >>)
         \o RowsOf(f, d + 1)
Stores ==
    { RowsOf(f, 1) : f \in UNION { [D -> Prices] : D \in SUBSET StorableDates } }

\* self.df.loc[start_date:end_date]: the rows whose date lies in the closed
\* interval; none when the interval is empty (start after end) or holds no row.
Loc(store, start_date, end_date) ==
    LET In(row) == start_date <= row.date /\ row.date <= end_date
    IN  SelectSeq(store, In)

\* data['Adj Close'] as floats.
AdjClose(data) == [i \in 1 .. Len(data) |-> FInt(data[i].price)]

\* Series.pct_change(): NaN in the first row, price[i]/price[i-1] - 1 after.
PctChange(p) ==
    [i \in 1 .. Len(p) |->
        IF i = 1 THEN NaN ELSE FSub(FDiv(p[i], p[i - 1]), FInt(1))]

\* The 'return' column of the window after data.dropna().
ReturnsKeepNaN(store, start_date, end_date) ==
    PctChange(AdjClose(Loc(store, start_date, end_date)))
Returns(store, start_date, end_date) ==
    DropNa(PctChange(AdjClose(Loc(store, start_date, end_date))))

\* Series.rolling(window, min_periods=1).max(): the greatest of the last
\* `window` entries, over fewer at the start of the series.
RollingMaxFullWindow(p, window) ==
    [i \in 1 .. Len(p) |->
        IF i - window + 1 < 1 THEN NaN ELSE FMax(SubSeq(p, i - window + 1, i))]
RollingMax(p, window) ==
    [i \in 1 .. Len(p) |->
        LET lo == IF i - window + 1 < 1 THEN 1 ELSE i - window + 1
        IN  FMax(SubSeq(p, lo, i))]

\* Series.rolling(window).std() squared: the sample variance of the last
\* `window` entries, NaN while fewer than `window` non-NaN entries are there.
RollingVar(r, window) ==
    [i \in 1 .. Len(r) |->
        IF i - window + 1 < 1 THEN NaN
        ELSE LET w == SubSeq(r, i - window + 1, i)
             IN  IF Len(DropNa(w)) < window THEN NaN ELSE Var(w)]

\* np.percentile(sample, level), linear interpolation between the order
\* statistics around position (n-1)*level/100; the sample is not empty.
Percentile(sample, level) ==
    LET s == Sorted(sample)
        n == Len(s)
        lo == ((n - 1) * level) \div 100
        hi == IF lo + 1 > n - 1 THEN n - 1 ELSE lo + 1
        frac == Norm(((n - 1) * level) % 100, 100)
    IN  FAdd(s[lo + 1], FMul(FSub(s[hi + 1], s[lo + 1]), frac))

\* ------------------------------------------------------------- outcomes
\* What a call hands back.  tag "return": the value described by form/args
\* (and a date, 0 when the operation reports none); tag "raise": the Python
\* exception that leaves the call.
\*   form "num"      args <<x>>          the float x
\*   form "pow_m1"   args <<b, <<A, m>>>> b ^ (A/m) - 1
\*   form "sqrt"     args <<v>>          sqrt(v)
\*   form "div_sqrt" args <<a, v>>       a / sqrt(v)
\*   form "skew"     args <<m3, m2>>     m3 / m2^1.5
\*   form "kurt"     args <<m4, m2>>     m4 / m2^2 - 3
\*   form "plot"     args = the series handed to matplotlib; None is returned
\*   form "plot_sqrt" like "plot", each entry v standing for sqrt(v)
Returned(form, args, date) ==
    [tag |-> "return", exc |-> "", form |-> form, args |-> args, date |-> date]
Raised(exc) ==
    [tag |-> "raise", exc |-> exc, form |-> "", args |-> << >>, date |-> 0]
NoResult ==
    [tag |-> "none", exc |-> "", form |-> "", args |-> << >>, date |-> 0]

\* A float of the same class (NaN, infinite, finite) as the value a returned
\* scalar stands for ("skew" and "kurt" are built only where m2 > 0).
Core(r) ==
    IF r.form = "div_sqrt" THEN FDiv(r.args[1], r.args[2])
    ELSE r.args[1]
IsScalar(r) ==
    r.tag = "return" /\ r.form \in {"num", "pow_m1", "sqrt", "div_sqrt", "skew", "kurt"}

\* ------------------------------------------------------------- metrics
\* How np.percentile treats an empty sample depends on the numpy release:
\* it returns NaN (with a warning) or raises IndexError.
EmptyPercentile == {"nan", "IndexError"}
\* Thresholds offered to omega_ratio (default 0).
Thresholds == { Norm(-1, 2), FInt(0), Norm(1, 2) }

\* self.df after a call: every method works on .copy() of the slice and
\* assigns its new columns to that copy, so the store keeps its rows.
StoreAfterCallSliced(store, data) == data
StoreAfterCall(store, data) == store

annualized_performance(store, start_date, end_date) ==
    LET ret == Returns(store, start_date, end_date)
        growth == FProd([i \in 1 .. Len(ret) |-> FAdd(FInt(1), ret[i])])
    IN  IF Len(ret) = 0 THEN Raised("ZeroDivisionError")
        ELSE Returned("pow_m1", << growth, << A, Len(ret) >> >>, 0)

\* data['daily_dd'] = data['Adj Close'] / data['roll_max'] - 1.0
DailyDDRatioOnly(p, window) ==
    [i \in 1 .. Len(p) |-> FDiv(p[i], RollingMax(p, window)[i])]
DailyDD(p, window) ==
    [i \in 1 .. Len(p) |-> FSub(FDiv(p[i], RollingMax(p, window)[i]), FInt(1))]

\* data['daily_dd'].idxmin(): the index label (date) of the first minimum.
RECURSIVE ArgMinLastFrom(_, _, _)
ArgMinLastFrom(xs, i, best) ==
    IF i > Len(xs) THEN best
    ELSE IF IsNaN(xs[i]) THEN ArgMinLastFrom(xs, i + 1, best)
    ELSE IF best = 0 \/ FLe(xs[i], xs[best]) THEN ArgMinLastFrom(xs, i + 1, i)
    ELSE ArgMinLastFrom(xs, i + 1, best)
IdxMinLast(data, col) ==
    LET k == ArgMinLastFrom(col, 1, 0) IN IF k = 0 THEN 0 ELSE data[k].date
IdxMin(data, col) ==
    LET k == ArgMin(col) IN IF k = 0 THEN 0 ELSE data[k].date

max_drawdown(store, start_date, end_date, window) ==
    LET data == Loc(store, start_date, end_date)
        daily_dd == DailyDD(AdjClose(data), window)
        max_dd == FMin(daily_dd)
    IN  IF Len(data) = 0 THEN Raised("ValueError")
        ELSE Returned("num", << max_dd >>, IdxMin(data, daily_dd))

plot_prices(store, start_date, end_date) ==
    Returned("plot", AdjClose(Loc(store, start_date, end_date)), 0)

plot_volatility(store, start_date, end_date, window) ==
    LET ret == PctChange(AdjClose(Loc(store, start_date, end_date)))
        rv == RollingVar(ret, window)
    IN  Returned("plot_sqrt", [i \in 1 .. Len(rv) |-> FMul(rv[i], FInt(A))], 0)

information_ratio(store, start_date, end_date) ==
    LET ret == PctChange(AdjClose(Loc(store, start_date, end_date)))
        annual_return == FMul(Mean(ret), FInt(A))
        annual_variance == FMul(Var(ret), FInt(A))
    IN  Returned("div_sqrt", << annual_return, annual_variance >>, 0)

semi_deviation(store, start_date, end_date) ==
    LET ret == PctChange(AdjClose(Loc(store, start_date, end_date)))
        Negative(x) == FLt(x, FInt(0))
        negative_returns == SelectSeq(ret, Negative)
    IN  Returned("sqrt", << Var(negative_returns) >>, 0)

var_historical(store, start_date, end_date, level, onEmpty) ==
    LET ret == Returns(store, start_date, end_date)
    IN  IF Len(ret) = 0
        THEN (IF onEmpty = "nan" THEN Returned("num", << NaN >>, 0)
              ELSE Raised("IndexError"))
        ELSE Returned("num", << Percentile(ret, level) >>, 0)

\* data['return'][data['return'] <= var]
TailAbove(ret, var) == LET Hit(x) == FLe(var, x) IN SelectSeq(ret, Hit)
TailBelow(ret, var) == LET Hit(x) == FLe(x, var) IN SelectSeq(ret, Hit)

cvar_historical(store, start_date, end_date, level, onEmpty) ==
    LET ret == Returns(store, start_date, end_date)
        var == IF Len(ret) = 0 THEN NaN ELSE Percentile(ret, level)
    IN  IF Len(ret) = 0 /\ onEmpty = "IndexError" THEN Raised("IndexError")
        ELSE Returned("num", << Mean(TailBelow(ret, var)) >>, 0)

\* scipy.stats.skew (bias=True): m3 / m2^1.5, NaN for an empty sample and
\* where the second moment is zero.
skewness(store, start_date, end_date) ==
    LET ret == Returns(store, start_date, end_date)
        m2 == Moment(ret, 2)
    IN  IF Len(ret) = 0 \/ m2 = FInt(0) THEN Returned("num", << NaN >>, 0)
        ELSE Returned("skew", << Moment(ret, 3), m2 >>, 0)

\* scipy.stats.kurtosis (fisher=True, bias=True): m4 / m2^2 - 3, NaN for an
\* empty sample and where the second moment is zero.
kurtosis(store, start_date, end_date) ==
    LET ret == Returns(store, start_date, end_date)
        m2 == Moment(ret, 2)
    IN  IF Len(ret) = 0 \/ m2 = FInt(0) THEN Returned("num", << NaN >>, 0)
        ELSE Returned("kurt", << Moment(ret, 4), m2 >>, 0)

\* returns_above_threshold.mean() / abs(returns_below_threshold.mean())
OmegaNoAbs(above, below) == FDiv(Mean(above), Mean(below))
Omega(above, below) == FDiv(Mean(above), FAbs(Mean(below)))

omega_ratio(store, start_date, end_date, threshold) ==
    LET ret == Returns(store, start_date, end_date)
        Above(x) == FGt(x, threshold)
        Below(x) == FLe(x, threshold)
    IN  Returned("num", << Omega(SelectSeq(ret, Above), SelectSeq(ret, Below)) >>, 0)

\* ------------------------------------------------------------- state
VARIABLES
    df,      \* self.df: the stored rows, set once by __init__
    df0,     \* history: the rows __init__ loaded
    pc,      \* "idle": no call in progress; "returned": a call just ended
    call,    \* the operation that was called and its arguments
    result   \* what that call handed back

vars == << df, df0, pc, call, result >>

Call(op, start_date, end_date, window, level, threshold) ==
    [op |-> op, start_date |-> start_date, end_date |-> end_date,
     window |-> window, level |-> level, threshold |-> threshold]
NoCall == Call("", 0, 0, 0, 0, FInt(0))

\* __init__: the rows of the file, indexed by date.
Init ==
    /\ df \in Stores
    /\ df0 = df
    /\ pc = "idle"
    /\ call = NoCall
    /\ result = NoResult

\* The worked example of the drawdown metric: five consecutive days.
ScenarioPrices == << 100, 90, 95, 80, 120 >>
ScenarioStore == [i \in 1 .. 5 |-> [date |-> i, price |-> ScenarioPrices[i]]]

InitDD ==
    /\ df \in Stores \cup { ScenarioStore }
    /\ df0 = df
    /\ pc = "idle"
    /\ call = NoCall
    /\ result = NoResult

\* Each action is one whole call from an idle engine: the outcome is recorded
\* and self.df is what the method left in it.
AnnualizedPerformance ==
    \E s \in Dates, e \in Dates :
        /\ pc = "idle"
        /\ pc' = "returned"
        /\ call' = Call("annualized_performance", s, e, 0, 0, FInt(0))
        /\ result' = annualized_performance(df, s, e)
        /\ df' = StoreAfterCall(df, Loc(df, s, e))
        /\ UNCHANGED df0

MaxDrawdown ==
    \E s \in Dates, e \in Dates, w \in Windows :
        /\ pc = "idle"
        /\ pc' = "returned"
        /\ call' = Call("max_drawdown", s, e, w, 0, FInt(0))
        /\ result' = max_drawdown(df, s, e, w)
        /\ df' = StoreAfterCall(df, Loc(df, s, e))
        /\ UNCHANGED df0

PlotPrices ==
    \E s \in Dates, e \in Dates :
        /\ pc = "idle"
        /\ pc' = "returned"
        /\ call' = Call("plot_prices", s, e, 0, 0, FInt(0))
        /\ result' = plot_prices(df, s, e)
        /\ df' = StoreAfterCall(df, Loc(df, s, e))
        /\ UNCHANGED df0

PlotVolatility ==
    \E s \in Dates, e \in Dates, w \in Windows :
        /\ pc = "idle"
        /\ pc' = "returned"
        /\ call' = Call("plot_volatility", s, e, w, 0, FInt(0))
        /\ result' = plot_volatility(df, s, e, w)
        /\ df' = StoreAfterCall(df, Loc(df, s, e))
        /\ UNCHANGED df0

InformationRatio ==
    \E s \in Dates, e \in Dates :
        /\ pc = "idle"
        /\ pc' = "returned"
        /\ call' = Call("information_ratio", s, e, 0, 0, FInt(0))
        /\ result' = information_ratio(df, s, e)
        /\ df' = StoreAfterCall(df, Loc(df, s, e))
        /\ UNCHANGED df0

SemiDeviation ==
    \E s \in Dates, e \in Dates :
        /\ pc = "idle"
        /\ pc' = "returned"
        /\ call' = Call("semi_deviation", s, e, 0, 0, FInt(0))
        /\ result' = semi_deviation(df, s, e)
        /\ df' = StoreAfterCall(df, Loc(df, s, e))
        /\ UNCHANGED df0

VarHistorical ==
    \E s \in Dates, e \in Dates, l \in Levels, onEmpty \in EmptyPercentile :
        /\ pc = "idle"
        /\ pc' = "returned"
        /\ call' = Call("var_historical", s, e, 0, l, FInt(0))
        /\ result' = var_historical(df, s, e, l, onEmpty)
        /\ df' = StoreAfterCall(df, Loc(df, s, e))
        /\ UNCHANGED df0

CvarHistorical ==
    \E s \in Dates, e \in Dates, l \in Levels, onEmpty \in EmptyPercentile :
        /\ pc = "idle"
        /\ pc' = "returned"
        /\ call' = Call("cvar_historical", s, e, 0, l, FInt(0))
        /\ result' = cvar_historical(df, s, e, l, onEmpty)
        /\ df' = StoreAfterCall(df, Loc(df, s, e))
        /\ UNCHANGED df0

Skewness ==
    \E s \in Dates, e \in Dates :
        /\ pc = "idle"
        /\ pc' = "returned"
        /\ call' = Call("skewness", s, e, 0, 0, FInt(0))
        /\ result' = skewness(df, s, e)
        /\ df' = StoreAfterCall(df, Loc(df, s, e))
        /\ UNCHANGED df0

Kurtosis ==
    \E s \in Dates, e \in Dates :
        /\ pc = "idle"
        /\ pc' = "returned"
        /\ call' = Call("kurtosis", s, e, 0, 0, FInt(0))
        /\ result' = kurtosis(df, s, e)
        /\ df' = StoreAfterCall(df, Loc(df, s, e))
        /\ UNCHANGED df0

OmegaRatio ==
    \E s \in Dates, e \in Dates, th \in Thresholds :
        /\ pc = "idle"
        /\ pc' = "returned"
        /\ call' = Call("omega_ratio", s, e, 0, 0, th)
        /\ result' = omega_ratio(df, s, e, th)
        /\ df' = StoreAfterCall(df, Loc(df, s, e))
        /\ UNCHANGED df0

\* The caller takes the outcome; the engine keeps nothing of the call.
Return ==
    /\ pc = "returned"
    /\ pc' = "idle"
    /\ call' = NoCall
    /\ result' = NoResult
    /\ UNCHANGED << df, df0 >>

Next ==
    \/ AnnualizedPerformance
    \/ MaxDrawdown
    \/ PlotPrices
    \/ PlotVolatility
    \/ InformationRatio
    \/ SemiDeviation
    \/ VarHistorical
    \/ CvarHistorical
    \/ Skewness
    \/ Kurtosis
    \/ OmegaRatio
    \/ Return

Spec == Init /\ [][Next]_vars

\* The drawdown metric alone, on the stores of Spec and the worked example.
NextDD == MaxDrawdown \/ Return
SpecDD == InitDD /\ [][NextDD]_vars

\* ------------------------------------------------------------- properties
Done(op) == pc = "returned" /\ call.op = op
\* The rows, prices and returns of the window of the call that just ended.
Slice == Loc(df, call.start_date, call.end_date)
SlicePrices == AdjClose(Slice)
SliceReturns == Returns(df, call.start_date, call.end_date)
NonDecreasing(p) == \A i \in 1 .. Len(p) - 1 : FLe(p[i], p[i + 1])
Value == result.args[1]

MetricOps ==
    {"annualized_performance", "max_drawdown", "information_ratio",
     "semi_deviation", "var_historical", "cvar_historical", "skewness",
     "kurtosis", "omega_ratio"}

\* C1: whatever max_drawdown returns is <= 0, and it is exactly 0 when the
\* prices of the window never decrease.
C1_DrawdownNonPositive ==
    (Done("max_drawdown") /\ result.tag = "return") =>
        /\ FLe(Value, FInt(0))
        /\ NonDecreasing(SlicePrices) => Value = FInt(0)
\* A window of rising prices, not all equal, whose drawdown is 0.
C1_Witness ==
    /\ Done("max_drawdown") /\ result.tag = "return"
    /\ Len(Slice) >= 2 /\ NonDecreasing(SlicePrices)
    /\ SlicePrices[1] # SlicePrices[Len(Slice)]
    /\ Value = FInt(0)

\* C2: max_drawdown returns the least daily drawdown of the window and the
\* date of the first row that attains it; on the worked example (prices
\* 100, 90, 95, 80, 120, window >= 4) that is -1/5 on the fourth day (index 3).
C2_FirstMinimum ==
    (Done("max_drawdown") /\ result.tag = "return") =>
        LET dd == DailyDD(SlicePrices, call.window)
        IN  /\ \A i \in 1 .. Len(dd) : FLe(Value, dd[i])
            /\ \E k \in 1 .. Len(dd) :
                  /\ Slice[k].date = result.date
                  /\ dd[k] = Value
                  /\ \A i \in 1 .. k - 1 : dd[i] # Value
            /\ (df = ScenarioStore /\ Len(Slice) = 5 /\ call.window >= 4) =>
                  (Value = Norm(-1, 5) /\ result.date = ScenarioStore[4].date)
\* Two rows tie for a negative minimum and the earlier date is reported.
C2_Witness ==
    /\ Done("max_drawdown") /\ result.tag = "return"
    /\ FLt(Value, FInt(0))
    /\ LET dd == DailyDD(SlicePrices, call.window)
       IN  \E i, j \in 1 .. Len(dd) :
              i < j /\ dd[i] = Value /\ dd[j] = Value /\ Slice[i].date = result.date

\* The drawdown against the running maximum from the start of the window.
RunningDD(p) ==
    [i \in 1 .. Len(p) |-> FSub(FDiv(p[i], FMax(SubSeq(p, 1, i))), FInt(1))]

\* C10: on the same window a longer trailing window never gives a shallower
\* drawdown, and a trailing window at least as long as the slice gives the
\* drawdown against the running maximum from the start of the slice.
C10_WindowMonotone ==
    (Done("max_drawdown") /\ result.tag = "return") =>
        /\ \A w2 \in Windows :
              call.window <= w2 =>
                 FLe(max_drawdown(df, call.start_date, call.end_date, w2).args[1],
                     Value)
        /\ call.window >= Len(Slice) => Value = FMin(RunningDD(SlicePrices))
\* A longer window that gives a strictly deeper drawdown.
C10_Witness ==
    /\ Done("max_drawdown") /\ result.tag = "return"
    /\ \E w2 \in Windows :
          /\ call.window < w2
          /\ FLt(max_drawdown(df, call.start_date, call.end_date, w2).args[1],
                 Value)

\* C3: a window that lies entirely outside the stored date range selects no
\* row, and every metric then fails with InsufficientDataError.
WindowOutsideRange ==
    /\ Len(df) > 0
    /\ call.start_date <= call.end_date
    /\ \/ call.end_date < df[1].date
       \/ call.start_date > df[Len(df)].date
C3_EmptySliceIsInsufficientData ==
    (pc = "returned" /\ call.op \in MetricOps /\ WindowOutsideRange) =>
        /\ Len(Slice) = 0
        /\ result = Raised("InsufficientDataError")

\* C4: a metric called with start_date after end_date fails with
\* InvalidRangeError.
C4_InvertedWindowIsInvalidRange ==
    (pc = "returned" /\ call.op \in MetricOps /\ call.start_date > call.end_date) =>
        result = Raised("InvalidRangeError")

\* C5: no metric returns NaN or an infinity; stated here for the windows
\* that do hold returns, where only a zero denominator or an empty subset of
\* the returns can produce one.
C5_NoNaNOrInfinity ==
    (pc = "returned" /\ call.op \in MetricOps /\ Len(SliceReturns) >= 1
        /\ IsScalar(result)) =>
        IsFinite(Core(result))

\* C6: with at least one return and 0 < level < 50, cvar_historical is at
\* most var_historical on the same window and level, VaR being the
\* interpolated percentile and CVaR the mean of the returns <= VaR.
C6_CVaRAtMostVaR ==
    (Done("cvar_historical") /\ Len(SliceReturns) >= 1
        /\ 0 < call.level /\ call.level < 50) =>
        \A onEmpty \in EmptyPercentile :
            LET var == var_historical(df, call.start_date, call.end_date,
                                      call.level, onEmpty)
            IN  /\ result.tag = "return" /\ var.tag = "return"
                /\ var.args[1] = Percentile(SliceReturns, call.level)
                /\ FLe(Value, var.args[1])
\* Two different returns: VaR is interpolated strictly between them and CVaR
\* is the lower one.
C6_Witness ==
    /\ Done("cvar_historical") /\ result.tag = "return"
    /\ Len(SliceReturns) >= 2
    /\ 0 < call.level /\ call.level < 50
    /\ FLt(Value, Percentile(SliceReturns, call.level))
    /\ FLt(Percentile(SliceReturns, call.level), FMax(SliceReturns))

ReturnsAbove == LET Hit(x) == FGt(x, call.threshold) IN SelectSeq(SliceReturns, Hit)
ReturnsBelow == LET Hit(x) == FLe(x, call.threshold) IN SelectSeq(SliceReturns, Hit)

C8_ReturnCount ==
    Done("annualized_performance") =>
        LET n == Len(Slice)
            p == SlicePrices
        IN  /\ n >= 2 =>
                /\ Len(SliceReturns) = n - 1
                /\ \A i \in 1 .. n - 1 :
                      FAdd(SliceReturns[i], FInt(1)) = FDiv(p[i + 1], p[i])
                /\ result.tag = "return" /\ result.args[2] = << A, n - 1 >>
            /\ n < 2 => (Len(SliceReturns) = 0 /\ result.tag = "raise")
\* Three rows, two returns, exponent 252/2.
C8_Witness ==
    /\ Done("annualized_performance") /\ Len(Slice) = 3
    /\ result.tag = "return" /\ result.args[2] = << A, 2 >>

\* What the call recorded in `call` hands back when made on `store`.
Outcomes(store, c) ==
    LET s == c.start_date
        e == c.end_date
    IN  CASE c.op = "annualized_performance" -> { annualized_performance(store, s, e) }
          [] c.op = "max_drawdown" -> { max_drawdown(store, s, e, c.window) }
          [] c.op = "plot_prices" -> { plot_prices(store, s, e) }
          [] c.op = "plot_volatility" -> { plot_volatility(store, s, e, c.window) }
          [] c.op = "information_ratio" -> { information_ratio(store, s, e) }
          [] c.op = "semi_deviation" -> { semi_deviation(store, s, e) }
          [] c.op = "var_historical" ->
                { var_historical(store, s, e, c.level, x) : x \in EmptyPercentile }
          [] c.op = "cvar_historical" ->
                { cvar_historical(store, s, e, c.level, x) : x \in EmptyPercentile }
          [] c.op = "skewness" -> { skewness(store, s, e) }
          [] c.op = "kurtosis" -> { kurtosis(store, s, e) }
          [] c.op = "omega_ratio" -> { omega_ratio(store, s, e, c.threshold) }

====
